---- MODULE Spec2Model ----
(***************************************************************************)
(* Model of gestor_passwords: the master-password verifier file            *)
(* (master.key), the encrypted store file (passwords.db), the              *)
(* PasswordManager object and the console program that drives them.        *)
(*                                                                         *)
(* Abstractions, all of them injective so that a wrong key, a lost record  *)
(* or an ambiguous identifier stays visible:                               *)
(*   - PBKDF2 is the pair (password, salt): two derivations agree exactly  *)
(*     when both inputs agree;                                             *)
(*   - os.urandom salts are fresh: the n-th salt generated is n;           *)
(*   - AES-GCM is a sealed box [key, pt] that opens only under its key;    *)
(*     the nonce does not influence what decryption returns, so it is not  *)
(*     represented;                                                        *)
(*   - base64 and JSON are tagged wrappers that only their own decoder     *)
(*     removes;                                                            *)
(*   - a Python dict is the sequence of its items in insertion order.      *)
(***************************************************************************)
EXTENDS Integers, Sequences, FiniteSets, TLC

(* -------- bounds of the model -------- *)
\* number of salts os.urandom hands out (one per setup_master_password call)
MaxSalt == 2
\* number of calendar days the runs span
MaxDay == 2
\* number of file writes that fail in one behaviour of SpecIO
MaxFaults == 1

(* -------- program constants -------- *)
MinMasterLen == 8
max_attempts == 3

(* -------- inputs typed at the prompts -------- *)
MasterPasswords == {"master-one", "master-two", "short"}
\* the (service, username) pairs the callers pass
Accounts == {<<"A", "c">>, <<"A", "b_c">>, <<"A_b", "c">>}
Plaintexts == {"p1", "p2"}
\* the search terms the callers pass
Queries == {"a", "B", "c"}

\* Python's None where a str is expected
NoneStr == "<None>"
\* Python's None where a key is expected
NoneKey == [kind |-> "None"]
\* bytes read from a zero-length file
NoBytes == [kind |-> "nobytes"]

VARIABLES
    pc,              \* where main() is: "off", "setup", "unlock", "menu"
    attempts,        \* main's failed unlock attempts
    master_password, \* main's local: the password of the successful unlock
    verifierFile,    \* master.key
    storeFile,       \* passwords.db
    master_key,      \* PasswordManager.master_key
    passwords,       \* PasswordManager.passwords
    today,           \* the calendar date datetime.now() reports
    nextSalt,        \* the next salt os.urandom returns
    faults,          \* the file writes that have failed so far
    exit_code,       \* how the last run of the program ended: "none" while it has
                     \* not, "0" and "1" for sys.exit, "killed"
    last             \* the last operation and what it returned

vars == <<pc, attempts, master_password, verifierFile, storeFile,
          master_key, passwords, today, nextSalt, faults, exit_code, last>>

(* ======================= crypto_utils.py ======================= *)

\* derive_key / hash_password with a given salt
derive_key(password, salt) == [kind |-> "key", pw |-> password, salt |-> salt]

AbsentFile == [kind |-> "absent"]
EmptyFile == [kind |-> "empty"]
GarbageFile == [kind |-> "garbage"]

\* what the two f.read calls of verify_master_password / get_master_key return
ReadSalt(vf) == IF vf.kind = "file" THEN vf.salt ELSE 0
ReadKey(vf) == IF vf.kind = "file" THEN vf.key ELSE NoBytes

\* outcomes of writing a file opened with mode "wb":
\*   "ok"        the write completes
\*   "open_fail" open() raises, the file is untouched
\*   "truncated" open() truncated the file and the write raised before any byte
\*   "partial"   open() truncated the file and the write raised part-way
WriteOk == {"ok"}
WriteOutcomes == {"ok", "open_fail", "truncated", "partial"}

\* setup_master_password: the verifier file after the call (the return value is
\* ignored by both callers)
setup_master_password(password, salt, vf, w) ==
    CASE w = "ok" -> [kind |-> "file", salt |-> salt, key |-> derive_key(password, salt)]
      [] w = "open_fail" -> vf
      [] w = "truncated" -> EmptyFile
      [] w = "partial" -> [kind |-> "file", salt |-> salt, key |-> NoBytes]

\* verify_master_password that accepts whatever is entered once the file exists
verify_master_password_AnyPassword(password, vf) == vf.kind # "absent"

\* verify_master_password: any exception (missing file) is reported as False
verify_master_password(password, vf) ==
    IF vf.kind = "absent" THEN FALSE
    ELSE derive_key(password, ReadSalt(vf)) = ReadKey(vf)

\* get_master_key: None when master.key cannot be opened
get_master_key(password, vf) ==
    IF vf.kind = "absent" THEN NoneKey
    ELSE derive_key(password, ReadSalt(vf))

\* encrypt_data: raises (ok = FALSE) on a None key or None data
encrypt_data(data, key) ==
    IF key = NoneKey THEN [ok |-> FALSE, val |-> NoBytes]
    ELSE [ok |-> TRUE, val |-> [kind |-> "box", key |-> key, pt |-> data]]

\* decrypt_data: None (ok = FALSE) when the tag does not verify
decrypt_data(encrypted_data, key) ==
    IF encrypted_data.kind = "box" /\ key # NoneKey /\ encrypted_data.key = key
    THEN [ok |-> TRUE, val |-> encrypted_data.pt]
    ELSE [ok |-> FALSE, val |-> NoneStr]

b64encode(bytes) == [kind |-> "b64", of |-> bytes]
b64decode(text) == IF text.kind = "b64" THEN text.of ELSE GarbageFile

\* encrypt_password
encrypt_password(password, key) ==
    LET e == encrypt_data(password, key)
    IN  [ok |-> e.ok, val |-> b64encode(e.val)]

\* decrypt_password
decrypt_password(encrypted_password, key) ==
    decrypt_data(b64decode(encrypted_password), key)

(* ======================= password_manager.py ======================= *)

\* json.dumps / json.loads of the passwords dict
Dumps(d) == [kind |-> "json", of |-> d]
Loads(j) == j.of

\* password_id = f"{service}_{username}"
password_id(service, username) == service \o "_" \o username

\* position of key id in the dict, 0 when it is not a key
IndexOf(d, id) ==
    IF \E i \in 1..Len(d) : d[i].id = id
    THEN CHOOSE i \in 1..Len(d) : d[i].id = id
    ELSE 0

\* d[id] = entry: an existing key keeps its position, a new key goes last
DictSet(d, id, entry) ==
    IF IndexOf(d, id) = 0 THEN Append(d, entry)
    ELSE [d EXCEPT ![IndexOf(d, id)] = entry]

\* del d[id]
DictDel(d, id) ==
    LET i == IndexOf(d, id)
    IN  SubSeq(d, 1, i - 1) \o SubSeq(d, i + 1, Len(d))

\* PasswordManager._load_passwords
LoadPasswords(sf, key) ==
    IF sf.kind = "absent" THEN <<>>
    ELSE IF sf.kind = "empty" THEN <<>>
    ELSE LET json_data == IF sf.kind = "data"
                          THEN decrypt_password(sf.text, key)
                          ELSE [ok |-> FALSE, val |-> NoneStr]
         IN  IF json_data.ok THEN Loads(json_data.val) ELSE <<>>

\* _save_passwords that reports success without writing the file
SavePasswords_NoWrite(d, key, sf, w) == [ret |-> TRUE, store |-> sf]

\* PasswordManager._save_passwords: the return value and the store file after it
SavePasswords(d, key, sf, w) ==
    LET encrypted_data == encrypt_password(Dumps(d), key)
    IN  IF ~encrypted_data.ok THEN [ret |-> FALSE, store |-> sf]
        ELSE CASE w = "ok" ->
                    [ret |-> TRUE, store |-> [kind |-> "data", text |-> encrypted_data.val]]
               [] w = "open_fail" -> [ret |-> FALSE, store |-> sf]
               [] w = "truncated" -> [ret |-> FALSE, store |-> EmptyFile]
               [] w = "partial" -> [ret |-> FALSE, store |-> GarbageFile]

\* PasswordManager.add_password (encrypting a None password raises before the dict
\* is touched)
add_password(d, key, sf, service, username, password, date, w) ==
    LET encrypted_password == encrypt_password(password, key)
    IN  IF password = NoneStr \/ ~encrypted_password.ok
        THEN [ret |-> FALSE, passwords |-> d, store |-> sf]
        ELSE LET d2 == DictSet(d, password_id(service, username),
                               [id |-> password_id(service, username),
                                service |-> service,
                                username |-> username,
                                password |-> encrypted_password.val,
                                date |-> date])
                 s == SavePasswords(d2, key, sf, w)
             IN  [ret |-> s.ret, passwords |-> d2, store |-> s.store]

\* the tuple (service, username, password, date) built from a dict value
Tuple(password_data, key) ==
    LET decrypted_password == decrypt_password(password_data.password, key)
    IN  [service |-> password_data.service,
         username |-> password_data.username,
         password |-> IF decrypted_password.ok THEN decrypted_password.val ELSE NoneStr,
         date |-> password_data.date]

NotFound == [found |-> FALSE]

\* PasswordManager.get_password
get_password(d, key, service, username) ==
    LET i == IndexOf(d, password_id(service, username))
    IN  IF i # 0 THEN [found |-> TRUE, rec |-> Tuple(d[i], key)] ELSE NotFound

\* PasswordManager.get_all_passwords
get_all_passwords(d, key) == [i \in 1..Len(d) |-> Tuple(d[i], key)]

\* str.lower() of one character (of the letters the inputs are written in)
LowerChar(ch) ==
    CASE ch = "A" -> "a"
      [] ch = "B" -> "b"
      [] OTHER -> ch

\* str.lower()
RECURSIVE Lower(_)
Lower(s) ==
    IF s = "" THEN ""
    ELSE LowerChar(SubSeq(s, 1, 1)) \o Lower(SubSeq(s, 2, Len(s)))

\* Python's  q in s  on strings
Contains(q, s) ==
    \E i \in 0..(Len(s) - Len(q)) : SubSeq(s, i + 1, i + Len(q)) = q

\* search_passwords that compares the service as it was typed
search_passwords_CaseSensitive(d, key, query) ==
    LET hits == SelectSeq(d, LAMBDA password_data :
                                Contains(Lower(query), password_data.service))
    IN  [i \in 1..Len(hits) |-> Tuple(hits[i], key)]

\* PasswordManager.search_passwords
search_passwords(d, key, query) ==
    LET hits == SelectSeq(d, LAMBDA password_data :
                                Contains(Lower(query), Lower(password_data.service)))
    IN  [i \in 1..Len(hits) |-> Tuple(hits[i], key)]

\* delete_password that removes the entry in memory and skips _save_passwords
delete_password_NoSave(d, key, sf, service, username, w) ==
    IF IndexOf(d, password_id(service, username)) # 0
    THEN [ret |-> TRUE, passwords |-> DictDel(d, password_id(service, username)),
          store |-> sf]
    ELSE [ret |-> FALSE, passwords |-> d, store |-> sf]

\* PasswordManager.delete_password
delete_password(d, key, sf, service, username, w) ==
    IF IndexOf(d, password_id(service, username)) # 0
    THEN LET d2 == DictDel(d, password_id(service, username))
             s == SavePasswords(d2, key, sf, w)
         IN  [ret |-> s.ret, passwords |-> d2, store |-> s.store]
    ELSE [ret |-> FALSE, passwords |-> d, store |-> sf]

\* the loop of change_master_password: add_password for every exported tuple, the
\* i-th write ending as ws[i]; the result of each call is discarded
RECURSIVE ReAdd(_, _, _, _, _, _, _)
ReAdd(all_passwords, i, d, key, sf, date, ws) ==
    IF i > Len(all_passwords) THEN [passwords |-> d, store |-> sf]
    ELSE LET a == add_password(d, key, sf, all_passwords[i].service,
                               all_passwords[i].username, all_passwords[i].password,
                               date, ws[i])
         IN  ReAdd(all_passwords, i + 1, a.passwords, key, a.store, date, ws)

\* change_master_password that switches to the new key and keeps the records as
\* they were encrypted
change_master_password_KeepsCiphertext(d, key, sf, vf, new_password, salt, date, wv, ws) ==
    LET vf2 == setup_master_password(new_password, salt, vf, wv)
        new_master_key == get_master_key(new_password, vf2)
    IN  [ret |-> TRUE, master_key |-> new_master_key, passwords |-> d,
         store |-> sf, verifier |-> vf2]

\* PasswordManager.change_master_password
change_master_password(d, key, sf, vf, new_password, salt, date, wv, ws) ==
    LET all_passwords == get_all_passwords(d, key)
        vf2 == setup_master_password(new_password, salt, vf, wv)
        new_master_key == get_master_key(new_password, vf2)
        r == ReAdd(all_passwords, 1, <<>>, new_master_key, sf, date, ws)
    IN  [ret |-> TRUE, master_key |-> new_master_key, passwords |-> r.passwords,
         store |-> r.store, verifier |-> vf2]

\* the files change_master_password leaves when the process dies after the
\* verifier is written and k of the exported tuples are added again
InterruptedRotation(d, key, sf, vf, new_password, salt, date, k) ==
    LET all_passwords == get_all_passwords(d, key)
        vf2 == setup_master_password(new_password, salt, vf, "ok")
        new_master_key == get_master_key(new_password, vf2)
        r == ReAdd(SubSeq(all_passwords, 1, k), 1, <<>>, new_master_key, sf, date,
                   [i \in 1..k |-> "ok"])
    IN  [store |-> r.store, verifier |-> vf2]

(* ======================= main.py and the callers ======================= *)

Result(op, ok) == [op |-> op, ok |-> ok]

\* the environment makes the writes of one step end as ws (a sequence of outcomes)
Environment(ws) ==
    LET n == Cardinality({i \in DOMAIN ws : ws[i] # "ok"})
    IN  /\ faults + n <= MaxFaults
        /\ faults' = faults + n

\* no PasswordManager object exists
NoManager ==
    /\ master_key' = NoneKey
    /\ passwords' = <<>>
    /\ master_password' = ""

Init ==
    /\ pc = "off"
    /\ attempts = 0
    /\ master_password = ""
    /\ verifierFile = AbsentFile
    /\ storeFile = AbsentFile
    /\ master_key = NoneKey
    /\ passwords = <<>>
    /\ today = 1
    /\ nextSalt = 1
    /\ faults = 0
    /\ exit_code = "none"
    /\ last = Result("init", TRUE)

\* main, lines 28-31 and 58-59: the program starts and looks for master.key
Run ==
    /\ pc = "off"
    /\ pc' = IF verifierFile.kind = "absent" THEN "setup" ELSE "unlock"
    /\ attempts' = 0
    /\ exit_code' = "none"
    /\ last' = Result("run", TRUE)
    /\ UNCHANGED <<master_password, verifierFile, storeFile, master_key, passwords,
                   today, nextSalt, faults>>

\* main, lines 39-52: one round of the first-run loop
Setup(entered, confirm, W) ==
    /\ pc = "setup"
    /\ IF entered = confirm /\ Len(entered) >= MinMasterLen
       THEN /\ nextSalt <= MaxSalt
            /\ \E w \in W :
                  /\ Environment(<<w>>)
                  /\ verifierFile' =
                        setup_master_password(entered, nextSalt, verifierFile, w)
            /\ nextSalt' = nextSalt + 1
            /\ pc' = "unlock"
            /\ last' = Result("setup", TRUE)
       ELSE /\ last' = Result("setup", FALSE)
            /\ UNCHANGED <<verifierFile, nextSalt, pc, faults>>
    /\ UNCHANGED <<attempts, master_password, storeFile, master_key, passwords, today,
                   exit_code>>

\* an unlock loop that writes master.key again for the password entered when the
\* attempt fails
Unlock_RewritesVerifier(entered) ==
    /\ pc = "unlock"
    /\ attempts < max_attempts
    /\ IF verify_master_password(entered, verifierFile)
       THEN /\ master_password' = entered
            /\ master_key' = get_master_key(entered, verifierFile)
            /\ passwords' = LoadPasswords(storeFile, get_master_key(entered, verifierFile))
            /\ pc' = "menu"
            /\ last' = Result("unlock", TRUE)
            /\ UNCHANGED <<attempts, verifierFile, nextSalt, exit_code>>
       ELSE /\ nextSalt <= MaxSalt
            /\ attempts' = attempts + 1
            /\ pc' = IF attempts + 1 < max_attempts THEN "unlock" ELSE "off"
            /\ exit_code' = IF attempts + 1 < max_attempts THEN exit_code ELSE "1"
            /\ last' = Result("unlock", FALSE)
            /\ verifierFile' = setup_master_password(entered, nextSalt, verifierFile, "ok")
            /\ nextSalt' = nextSalt + 1
            /\ UNCHANGED <<master_password, master_key, passwords>>
    /\ UNCHANGED <<storeFile, today, faults>>

\* an unlock whose PasswordManager.__init__ saves the dict it has just loaded
Unlock_CreatesStore(entered) ==
    /\ pc = "unlock"
    /\ attempts < max_attempts
    /\ IF verify_master_password(entered, verifierFile)
       THEN /\ master_password' = entered
            /\ master_key' = get_master_key(entered, verifierFile)
            /\ passwords' = LoadPasswords(storeFile, get_master_key(entered, verifierFile))
            /\ storeFile' = SavePasswords(LoadPasswords(storeFile,
                                                         get_master_key(entered, verifierFile)),
                                          get_master_key(entered, verifierFile),
                                          storeFile, "ok").store
            /\ pc' = "menu"
            /\ last' = Result("unlock", TRUE)
            /\ UNCHANGED <<attempts, exit_code>>
       ELSE /\ attempts' = attempts + 1
            /\ pc' = IF attempts + 1 < max_attempts THEN "unlock" ELSE "off"
            /\ exit_code' = IF attempts + 1 < max_attempts THEN exit_code ELSE "1"
            /\ last' = Result("unlock", FALSE)
            /\ UNCHANGED <<master_password, master_key, passwords, storeFile>>
    /\ UNCHANGED <<verifierFile, today, nextSalt, faults>>

\* an unlock loop that gives one attempt more before it exits
Unlock_OneMoreAttempt(entered) ==
    /\ pc = "unlock"
    /\ attempts <= max_attempts
    /\ IF verify_master_password(entered, verifierFile)
       THEN /\ master_password' = entered
            /\ master_key' = get_master_key(entered, verifierFile)
            /\ passwords' = LoadPasswords(storeFile, get_master_key(entered, verifierFile))
            /\ pc' = "menu"
            /\ last' = Result("unlock", TRUE)
            /\ UNCHANGED <<attempts, exit_code>>
       ELSE /\ attempts' = attempts + 1
            /\ pc' = IF attempts + 1 <= max_attempts THEN "unlock" ELSE "off"
            /\ exit_code' = IF attempts + 1 <= max_attempts THEN exit_code ELSE "1"
            /\ last' = Result("unlock", FALSE)
            /\ UNCHANGED <<master_password, master_key, passwords>>
    /\ UNCHANGED <<verifierFile, storeFile, today, nextSalt, faults>>

\* main, lines 61-75: one round of the unlock loop; PasswordManager.__init__
Unlock(entered) ==
    /\ pc = "unlock"
    /\ attempts < max_attempts
    /\ IF verify_master_password(entered, verifierFile)
       THEN /\ master_password' = entered
            /\ master_key' = get_master_key(entered, verifierFile)
            /\ passwords' = LoadPasswords(storeFile, get_master_key(entered, verifierFile))
            /\ pc' = "menu"
            /\ last' = Result("unlock", TRUE)
            /\ UNCHANGED <<attempts, exit_code>>
       ELSE /\ attempts' = attempts + 1
            /\ pc' = IF attempts + 1 < max_attempts THEN "unlock" ELSE "off"
            /\ exit_code' = IF attempts + 1 < max_attempts THEN exit_code ELSE "1"
            /\ last' = Result("unlock", FALSE)
            /\ UNCHANGED <<master_password, master_key, passwords>>
    /\ UNCHANGED <<verifierFile, storeFile, today, nextSalt, faults>>

\* a call of PasswordManager.add_password
AddPassword(service, username, password, w) ==
    /\ pc = "menu"
    /\ Environment(<<w>>)
    /\ LET r == add_password(passwords, master_key, storeFile, service, username,
                             password, today, w)
       IN  /\ passwords' = r.passwords
           /\ storeFile' = r.store
           /\ last' = Result("add", r.ret)
    /\ UNCHANGED <<pc, attempts, master_password, verifierFile, master_key, today, nextSalt,
                   exit_code>>

\* a call of PasswordManager.get_password
GetPassword(service, username) ==
    /\ pc = "menu"
    /\ last' = Result("get", get_password(passwords, master_key, service, username).found)
    /\ UNCHANGED <<pc, attempts, master_password, verifierFile, storeFile, master_key,
                   passwords, today, nextSalt, faults, exit_code>>

\* a call of PasswordManager.get_all_passwords
GetAllPasswords ==
    /\ pc = "menu"
    /\ last' = Result("get_all", get_all_passwords(passwords, master_key) # <<>>)
    /\ UNCHANGED <<pc, attempts, master_password, verifierFile, storeFile, master_key,
                   passwords, today, nextSalt, faults, exit_code>>

\* a call of PasswordManager.search_passwords
SearchPasswords(query) ==
    /\ pc = "menu"
    /\ last' = Result("search", search_passwords(passwords, master_key, query) # <<>>)
    /\ UNCHANGED <<pc, attempts, master_password, verifierFile, storeFile, master_key,
                   passwords, today, nextSalt, faults, exit_code>>

\* a call of PasswordManager.delete_password
DeletePassword(service, username, w) ==
    /\ pc = "menu"
    /\ Environment(<<w>>)
    /\ LET r == delete_password(passwords, master_key, storeFile, service, username, w)
       IN  /\ passwords' = r.passwords
           /\ storeFile' = r.store
           /\ last' = Result("delete", r.ret)
    /\ UNCHANGED <<pc, attempts, master_password, verifierFile, master_key, today, nextSalt,
                   exit_code>>

\* the outcomes of the store writes of one rotation, one per record re-added
WriteSeqs(W) == [1..Len(passwords) -> W]

\* the state change of PasswordManager.change_master_password
Rotate(new_password, wv, ws, op) ==
    /\ nextSalt <= MaxSalt
    /\ Environment(<<wv>> \o ws)
    /\ LET r == change_master_password(passwords, master_key, storeFile, verifierFile,
                                       new_password, nextSalt, today, wv, ws)
       IN  /\ master_key' = r.master_key
           /\ passwords' = r.passwords
           /\ storeFile' = r.store
           /\ verifierFile' = r.verifier
           /\ last' = Result(op, r.ret)
    /\ nextSalt' = nextSalt + 1
    /\ UNCHANGED <<pc, attempts, master_password, today, exit_code>>

\* a call of PasswordManager.change_master_password
ChangeMasterPassword(new_password, wv, ws) ==
    /\ pc = "menu"
    /\ Rotate(new_password, wv, ws, "change")

\* menu option 5 without the check of the length of the new password
MenuChangeMasterPassword_AnyLength(current, new_password, confirm, W) ==
    /\ pc = "menu"
    /\ IF /\ verify_master_password(current, verifierFile)
          /\ new_password = confirm
       THEN \E wv \in W, ws \in WriteSeqs(W) :
               Rotate(new_password, wv, ws, "menu_change")
       ELSE /\ last' = Result("menu_change", FALSE)
            /\ UNCHANGED <<pc, attempts, master_password, verifierFile, storeFile,
                           master_key, passwords, today, nextSalt, faults, exit_code>>

\* main.change_master_password, lines 250-282: menu option 5
MenuChangeMasterPassword(current, new_password, confirm, W) ==
    /\ pc = "menu"
    /\ IF /\ verify_master_password(current, verifierFile)
          /\ new_password = confirm
          /\ Len(new_password) >= MinMasterLen
       THEN \E wv \in W, ws \in WriteSeqs(W) :
               Rotate(new_password, wv, ws, "menu_change")
       ELSE /\ last' = Result("menu_change", FALSE)
            /\ UNCHANGED <<pc, attempts, master_password, verifierFile, storeFile,
                           master_key, passwords, today, nextSalt, faults, exit_code>>

\* the process is killed (or the machine loses power) inside
\* PasswordManager.change_master_password, after k records are written again
CrashInRotation(new_password, k) ==
    /\ pc = "menu"
    /\ nextSalt <= MaxSalt
    /\ k \in 0..Len(passwords)
    /\ Environment(<<"crash">>)
    /\ LET r == InterruptedRotation(passwords, master_key, storeFile, verifierFile,
                                    new_password, nextSalt, today, k)
       IN  /\ storeFile' = r.store
           /\ verifierFile' = r.verifier
    /\ pc' = "off"
    /\ NoManager
    /\ exit_code' = "killed"
    /\ last' = Result("crash", FALSE)
    /\ nextSalt' = nextSalt + 1
    /\ UNCHANGED <<attempts, today>>

\* run_password_manager, lines 104-109: menu option 6
Exit ==
    /\ pc = "menu"
    /\ pc' = "off"
    /\ NoManager
    /\ exit_code' = "0"
    /\ last' = Result("exit", TRUE)
    /\ UNCHANGED <<attempts, verifierFile, storeFile, today, nextSalt, faults>>

\* midnight passes while the menu is shown: datetime.now() moves to the next day
DayPasses ==
    /\ pc = "menu"
    /\ today < MaxDay
    /\ today' = today + 1
    /\ last' = Result("day", TRUE)
    /\ UNCHANGED <<pc, attempts, master_password, verifierFile, storeFile, master_key,
                   passwords, nextSalt, faults, exit_code>>

\* every step of the program when the writes end as one of W and the passwords
\* stored are drawn from P
Step(W, P) ==
    \/ Run
    \/ \E e, c \in MasterPasswords : Setup(e, c, W)
    \/ \E e \in MasterPasswords : Unlock(e)
    \/ \E a \in Accounts, p \in P, w \in W : AddPassword(a[1], a[2], p, w)
    \/ \E a \in Accounts : GetPassword(a[1], a[2])
    \/ GetAllPasswords
    \/ \E q \in Queries : SearchPasswords(q)
    \/ \E a \in Accounts, w \in W : DeletePassword(a[1], a[2], w)
    \/ \E n \in MasterPasswords, wv \in W, ws \in WriteSeqs(W) :
          ChangeMasterPassword(n, wv, ws)
    \/ \E cur, n, c \in MasterPasswords : MenuChangeMasterPassword(cur, n, c, W)
    \/ Exit
    \/ DayPasses

\* every file write succeeds
Next == Step(WriteOk, Plaintexts)

\* file writes may fail and the process may die inside a rotation (the failures
\* do not depend on the password stored, so one plaintext is enough here)
NextIO ==
    \/ Step(WriteOutcomes, {"p1"})
    \/ \E n \in MasterPasswords, k \in 0..Cardinality(Accounts) : CrashInRotation(n, k)

Spec == Init /\ [][Next]_vars

SpecIO == Init /\ [][NextIO]_vars

(* ======================= the claims ======================= *)

\* what a caller reads from a vault: the (service, username, password) of every
\* tuple get_all_passwords returns
Records(d, key) ==
    {<<get_all_passwords(d, key)[i].service,
       get_all_passwords(d, key)[i].username,
       get_all_passwords(d, key)[i].password>> : i \in 1..Len(d)}

\* the vault a new run opens with password p: PasswordManager(p)
Reopened(p, vf, sf) == LoadPasswords(sf, get_master_key(p, vf))

\* this step is a call of change_master_password(n), from any caller
Rotated(n) ==
    /\ pc = "menu"
    /\ last'.op \in {"change", "menu_change"}
    /\ \E wv \in WriteOutcomes, ws \in WriteSeqs(WriteOutcomes),
          op \in {"change", "menu_change"} : Rotate(n, wv, ws, op)

\* C1: Rotation integrity. After change_master_password(n) has returned True, the
\* new password n unlocks the vault, the vault reopened with n holds every record
\* held before the rotation with its original plaintext, and no other (old)
\* password is accepted any more.
C1_RotationIntegrity ==
    [][\A n \in MasterPasswords :
         (Rotated(n) /\ last'.ok) =>
            /\ verify_master_password(n, verifierFile')
            /\ Records(Reopened(n, verifierFile', storeFile'),
                       get_master_key(n, verifierFile'))
                 = Records(passwords, master_key)
            /\ \A o \in MasterPasswords \ {n} :
                  ~verify_master_password(o, verifierFile')]_vars

\* the store file holds a blob that opens under key
Decryptable(sf, key) == sf.kind = "data" /\ decrypt_password(sf.text, key).ok

\* C2: a store file that is non-empty and does not decrypt under the supplied key
\* never yields an opened vault: no unlock ends in the menu over such a file.
C2_OpenFailsLoudly ==
    (pc = "menu" /\ last.op = "unlock" /\ last.ok) =>
        (storeFile.kind \in {"absent", "empty"} \/ Decryptable(storeFile, master_key))

\* C3: when _save_passwords fails (add_password or delete_password returns False),
\* the store file still holds the record set that was last persisted.
C3_PersistKeepsLastGood ==
    [][(last'.op \in {"add", "delete"} /\ ~last'.ok) =>
          LoadPasswords(storeFile', master_key) = LoadPasswords(storeFile, master_key)]_vars

\* C4: after every operation the store file is absent, empty, or a blob that
\* decrypts under the key the verifier file stores.
C4_StoreVerifierConsistent ==
    \/ storeFile.kind \in {"absent", "empty"}
    \/ /\ verifierFile.kind = "file"
       /\ Decryptable(storeFile, ReadKey(verifierFile))

\* this step is a call of add_password(a[1], a[2], p)
Added(a, p) ==
    /\ last'.op = "add"
    /\ \E w \in WriteOutcomes : AddPassword(a[1], a[2], p, w)

\* this step is a call of delete_password(a[1], a[2])
Deleted(a) ==
    /\ last'.op = "delete"
    /\ \E w \in WriteOutcomes : DeletePassword(a[1], a[2], w)

\* C5: adding a record for one (service, username) pair leaves what get returns
\* for every other pair unchanged.
C5_PairIdentity ==
    [][\A a, b \in Accounts, p \in Plaintexts :
         (a # b /\ Added(a, p)) =>
            get_password(passwords', master_key', b[1], b[2])
              = get_password(passwords, master_key, b[1], b[2])]_vars

\* C6: right after a successful add or delete, the vault a new run opens with the
\* master password holds the same records with the same plaintext passwords.
C6_PersistenceAcrossReopen ==
    (pc = "menu" /\ last.op \in {"add", "delete"} /\ last.ok) =>
        \A m \in MasterPasswords :
           verify_master_password(m, verifierFile) =>
              Records(Reopened(m, verifierFile, storeFile),
                      get_master_key(m, verifierFile))
                = Records(passwords, master_key)

\* a successful add and a following delete that left a record behind
C6_Witness ==
    /\ pc = "menu"
    /\ last.op = "delete"
    /\ last.ok
    /\ Len(passwords) = 1
    /\ storeFile.kind = "data"

\* the record of pair a is the one stored under its identifier
Stored(a, d, key) ==
    /\ get_password(d, key, a[1], a[2]).found
    /\ get_password(d, key, a[1], a[2]).rec.service = a[1]
    /\ get_password(d, key, a[1], a[2]).rec.username = a[2]

\* C7: after add(s, u, p) returns success get(s, u) returns password p, and it
\* keeps returning the password last added for the pair through every call that
\* is neither an add nor a delete of that pair.
C7_AddThenGet ==
    [][\A a \in Accounts :
         /\ \A p \in Plaintexts :
               (Added(a, p) /\ last'.ok) =>
                  /\ get_password(passwords', master_key', a[1], a[2]).found
                  /\ get_password(passwords', master_key', a[1], a[2]).rec.password = p
         /\ ( /\ pc = "menu"
              /\ pc' = "menu"
              /\ Stored(a, passwords, master_key)
              /\ ~ \E p \in Plaintexts : Added(a, p)
              /\ ~ Deleted(a) ) =>
               /\ get_password(passwords', master_key', a[1], a[2]).found
               /\ get_password(passwords', master_key', a[1], a[2]).rec.password
                    = get_password(passwords, master_key, a[1], a[2]).rec.password]_vars

\* C8: when add_password returns False, the record set in memory and the store
\* file are what they were before the call.
C8_AddAllOrNothing ==
    [][(last'.op = "add" /\ ~last'.ok) =>
          (passwords' = passwords /\ storeFile' = storeFile)]_vars

\* C9: change_master_password(n) returns True only if the verifier of n was
\* written and every record held before is in memory and in the store file under
\* the new key.
C9_SuccessMeansRotated ==
    [][\A n \in MasterPasswords :
         (Rotated(n) /\ last'.ok) =>
            /\ verifierFile'.kind = "file"
            /\ ReadKey(verifierFile') = derive_key(n, ReadSalt(verifierFile'))
            /\ ReadSalt(verifierFile') = nextSalt
            /\ Records(passwords', ReadKey(verifierFile')) = Records(passwords, master_key)
            /\ (passwords # <<>>) =>
                  /\ Decryptable(storeFile', ReadKey(verifierFile'))
                  /\ Records(LoadPasswords(storeFile', ReadKey(verifierFile')),
                             ReadKey(verifierFile'))
                       = Records(passwords, master_key)]_vars

\* C10: delete(s, u) of a stored pair returns True, removes that record and no
\* other, and persists the rest; a repeated delete(s, u) returns False; get(s, u)
\* finds nothing, in this vault and in the vault a new run opens.
C10_DeleteOnce ==
    [][\A a \in Accounts :
         (Deleted(a) /\ Stored(a, passwords, master_key)) =>
            /\ last'.ok
            /\ Records(passwords', master_key')
                 = Records(passwords, master_key)
                     \ {<<a[1], a[2],
                          get_password(passwords, master_key, a[1], a[2]).rec.password>>}
            /\ ~delete_password(passwords', master_key', storeFile',
                                a[1], a[2], "ok").ret
            /\ ~get_password(passwords', master_key', a[1], a[2]).found
            /\ \A m \in MasterPasswords :
                  verify_master_password(m, verifierFile') =>
                     /\ Records(Reopened(m, verifierFile', storeFile'),
                                get_master_key(m, verifierFile'))
                          = Records(passwords', master_key')
                     /\ ~get_password(Reopened(m, verifierFile', storeFile'),
                                      get_master_key(m, verifierFile'),
                                      a[1], a[2]).found]_vars

\* a delete that returned True and left another record behind
C10_Witness ==
    /\ pc = "menu"
    /\ last.op = "delete"
    /\ last.ok
    /\ Len(passwords) = 1
    /\ Reopened(master_password, verifierFile, storeFile) = passwords

\* this step is a first-run setup that called setup_master_password(e)
SetUp(e) ==
    /\ pc = "setup"
    /\ last'.op = "setup"
    /\ last'.ok
    /\ \E c \in MasterPasswords : Setup(e, c, WriteOutcomes)

\* C11: after setup_master_password(p) has written the verifier (at the first run
\* or inside a rotation), verify_master_password accepts p and rejects every other
\* password, and each step that is neither a setup nor a rotation (the unlock
\* attempts, which call verify, and the vault operations) leaves the answer of
\* verify for every password as it was.
C11_VerifierCorrect ==
    [][/\ \A p \in MasterPasswords :
            (SetUp(p) \/ Rotated(p)) =>
               /\ verify_master_password(p, verifierFile')
               /\ \A q \in MasterPasswords \ {p} : ~verify_master_password(q, verifierFile')
       /\ (last'.op \notin {"setup", "change", "menu_change"}) =>
             \A q \in MasterPasswords :
                verify_master_password(q, verifierFile')
                   = verify_master_password(q, verifierFile)]_vars

\* a wrong password was rejected, the right one accepted, and a vault operation
\* has run since
C11_Witness ==
    /\ pc = "menu"
    /\ attempts > 0
    /\ last.op = "add"
    /\ verify_master_password(master_password, verifierFile)
    /\ \E q \in MasterPasswords : ~verify_master_password(q, verifierFile)

\* this step is menu option 5 with a current password that verified
VerifiedRotation(n) ==
    /\ last'.op = "menu_change"
    /\ \E cur, c \in MasterPasswords :
          /\ verify_master_password(cur, verifierFile)
          /\ MenuChangeMasterPassword(cur, n, c, WriteOutcomes)

\* C12: a call of PasswordManager.change_master_password, whoever makes it,
\* overwrites the verifier file only if the same request has first verified the
\* current password the caller supplied.
C12_RotationVerifiesFirst ==
    [][\A n \in MasterPasswords :
         (Rotated(n) /\ verifierFile' # verifierFile) => VerifiedRotation(n)]_vars

\* C13: the verifier file is written only by the first-run setup (the file did
\* not exist when the program started) and by a rotation; an unlock attempt,
\* accepted or rejected, and add, get, get_all, search and delete leave it as it is.
C13_VerifierWrittenOnlyBySetupOrRotation ==
    [][/\ (verifierFile' # verifierFile) =>
             \/ pc = "setup" /\ last'.op = "setup" /\ verifierFile.kind = "absent"
             \/ pc = "menu" /\ last'.op \in {"change", "menu_change", "crash"}
       /\ (last'.op \in {"unlock", "add", "get", "get_all", "search", "delete"}) =>
             verifierFile' = verifierFile]_vars

\* an unlock attempt was rejected, a later one accepted, and a record was deleted,
\* with the verifier still the one the first run wrote
C13_Witness ==
    /\ pc = "menu"
    /\ attempts > 0
    /\ last.op = "delete"
    /\ last.ok
    /\ verifierFile.kind = "file"
    /\ verifierFile.salt = 1

\* master.key holds a salt and a derived key
WellFormed(vf) == vf.kind = "file" /\ vf.key.kind = "key"

\* C14: verify_master_password answers False (the unlock loop then reports a wrong
\* password) only when the entered password does not match a verifier that could
\* be read: never when master.key is missing, empty or cut short.
C14_FalseOnlyOnMismatch ==
    (last.op = "unlock" /\ ~last.ok) => WellFormed(verifierFile)

\* this step is a call of change_master_password(n) that the death of the process
\* cut short
Crashed(n) ==
    /\ last'.op = "crash"
    /\ \E k \in 0..Len(passwords) : CrashInRotation(n, k)

\* the files hold the records rs for someone who knows one of the passwords ps
Recoverable(rs, ps, vf, sf) ==
    \E m \in ps : Records(Reopened(m, vf, sf), get_master_key(m, vf)) = rs

\* C15: at every point at which a call of change_master_password that has
\* overwritten the verifier can stop (it returns, with or without failed writes, or
\* the process dies between the write of the verifier and the last record written
\* again), the records held before the rotation can be read back from the files
\* with the old or the new password (here: with any password at all).
C15_RotationKeepsRecordsRecoverable ==
    [][\A n \in MasterPasswords :
         ((Rotated(n) \/ Crashed(n)) /\ passwords # <<>>
             /\ WellFormed(verifierFile') /\ verifierFile' # verifierFile) =>
            Recoverable(Records(passwords, master_key), MasterPasswords,
                        verifierFile', storeFile')]_vars

\* q occurs in service when letters are compared without regard to case
Matches(q, service) ==
    \E off \in 0..(Len(service) - Len(q)) :
       \A k \in 1..Len(q) :
          LowerChar(SubSeq(q, k, k)) = LowerChar(SubSeq(service, off + k, off + k))

\* C16: for every query q, search_passwords(q) returns one tuple for each stored
\* record whose service contains q case-insensitively, with the record's service,
\* username, date and decrypted password, and nothing else: no record whose
\* service does not contain q (a username that contains q does not count).
C16_SearchExact ==
    pc = "menu" =>
       \A q \in Queries :
          LET r == search_passwords(passwords, master_key, q)
              hit == {i \in 1..Len(passwords) : Matches(q, passwords[i].service)}
          IN  /\ Len(r) = Cardinality(hit)
              /\ \A i \in hit :
                    \E j \in 1..Len(r) :
                       /\ r[j] = Tuple(passwords[i], master_key)
                       /\ r[j].password \in Plaintexts
              /\ \A j \in 1..Len(r) :
                    \E i \in hit : r[j] = Tuple(passwords[i], master_key)

\* a search has found something while the vault holds two records, one of which a
\* query matches (through upper and lower case) and the other not, although its
\* username contains another query
C16_Witness ==
    /\ pc = "menu"
    /\ last.op = "search"
    /\ last.ok
    /\ Len(passwords) = 2
    /\ Len(search_passwords(passwords, master_key, "B")) = 1
    /\ Len(search_passwords(passwords, master_key, "a")) = 2
    /\ search_passwords(passwords, master_key, "c") = <<>>

\* C17: PasswordManager(p) over a store file that does not exist or has length
\* zero gives an opened vault with no records, reports no error (the program goes
\* on to the menu), and leaves the store file as it was: not created, not written.
C17_OpenEmptyStore ==
    [][(pc = "unlock" /\ last'.op = "unlock" /\ last'.ok
           /\ storeFile.kind \in {"absent", "empty"}) =>
          /\ pc' = "menu"
          /\ passwords' = <<>>
          /\ get_all_passwords(passwords', master_key') = <<>>
          /\ storeFile' = storeFile]_vars

\* a vault has just been opened over a store file of length zero
C17_Witness ==
    /\ pc = "menu"
    /\ last.op = "unlock"
    /\ last.ok
    /\ storeFile.kind = "empty"
    /\ passwords = <<>>

\* this step is the terminal handing password e, confirmed as c, to
\* setup_master_password (first run) or to change_master_password (menu option 5)
UICall(e, c) ==
    /\ last'.ok
    /\ \/ last'.op = "setup" /\ Setup(e, c, WriteOutcomes)
       \/ /\ last'.op = "menu_change"
          /\ \E cur \in MasterPasswords : MenuChangeMasterPassword(cur, e, c, WriteOutcomes)

\* C18: the terminal calls setup_master_password and change_master_password only
\* with a password of at least 8 characters that equals its confirmation (so the
\* verifier it writes is for such a password), and an entry it rejects leaves the
\* verifier file and the store file unchanged.
C18_UIAcceptsOnlyValidPasswords ==
    [][/\ \A e, c \in MasterPasswords :
            UICall(e, c) => (Len(e) >= MinMasterLen /\ e = c)
       /\ (last'.op \in {"setup", "menu_change"} /\ WellFormed(verifierFile')
              /\ verifierFile' # verifierFile) =>
             Len(verifierFile'.key.pw) >= MinMasterLen
       /\ (last'.op \in {"setup", "menu_change"} /\ ~last'.ok) =>
             (verifierFile' = verifierFile /\ storeFile' = storeFile)]_vars

\* menu option 5 has rejected an entry over a vault that holds a record, after an
\* earlier rotation from the menu
C18_Witness ==
    /\ pc = "menu"
    /\ last.op = "menu_change"
    /\ ~last.ok
    /\ passwords # <<>>
    /\ WellFormed(verifierFile)
    /\ verifierFile.salt > 1

\* every record in memory holds its password as a sealed box under key, and
\* get_all_passwords gives one tuple per record, in order, with the password the
\* box holds; no two records are for the same (service, username)
HeldAsCiphertext(d, key) ==
    /\ \A i \in 1..Len(d) :
          /\ d[i].password.kind = "b64"
          /\ d[i].password.of.kind = "box"
          /\ d[i].password.of.key = key
    /\ Len(get_all_passwords(d, key)) = Len(d)
    /\ \A i \in 1..Len(d) :
          /\ get_all_passwords(d, key)[i].service = d[i].service
          /\ get_all_passwords(d, key)[i].username = d[i].username
          /\ get_all_passwords(d, key)[i].password = d[i].password.of.pt
          /\ get_all_passwords(d, key)[i].password \in Plaintexts
    /\ \A i, j \in 1..Len(d) :
          (d[i].service = d[j].service /\ d[i].username = d[j].username) => i = j

\* C19: in every state the records in memory hold each password only as
\* ciphertext under the vault's current key, and get_all_passwords returns one
\* tuple per stored record whose password, decrypted at the call, is the plaintext
\* last added for that pair: add(a, p) makes the tuple of a carry p, and no step
\* but an add for the pair changes the password a stored pair is returned with.
C19_CiphertextAtRest ==
    [][/\ HeldAsCiphertext(passwords, master_key)
       /\ HeldAsCiphertext(passwords', master_key')
       /\ \A a \in Accounts, p \in Plaintexts :
            (Added(a, p) /\ last'.ok) =>
               /\ <<a[1], a[2], p>> \in Records(passwords', master_key')
               /\ Records(passwords', master_key')
                     \subseteq (Records(passwords, master_key) \cup {<<a[1], a[2], p>>})
       /\ (last'.op \notin {"add", "exit", "crash"} /\ pc = "menu") =>
             Records(passwords', master_key') \subseteq Records(passwords, master_key)
       /\ (last'.op \notin {"add", "delete", "exit", "crash"} /\ pc = "menu") =>
             Records(passwords', master_key') = Records(passwords, master_key)]_vars

\* after a rotation the vault holds two records, with different passwords, under
\* the new key
C19_Witness ==
    /\ pc = "menu"
    /\ last.op \in {"change", "menu_change"}
    /\ Len(passwords) = 2
    /\ get_all_passwords(passwords, master_key)[1].password
          # get_all_passwords(passwords, master_key)[2].password
    /\ master_key.salt > 1

\* C20: after a successful unlock, and after every change_master_password that
\* returned True (one in which the write of master.key failed included), the
\* vault's master_key is the derived key the verifier file stores.
C20_WorkingKeyMatchesVerifier ==
    (pc = "menu" /\ last.op \in {"unlock", "change", "menu_change"} /\ last.ok) =>
        (verifierFile.kind = "file" /\ master_key = ReadKey(verifierFile))

\* C21: a PasswordManager exists and the menu is shown only after
\* verify_master_password has answered true for the password entered (the manager
\* is built from that password); the failed attempts of one run never exceed 3;
\* and the third failure ends the program with exit status 1, no manager built and
\* the store file as it was.
C21_UnlockGating ==
    [][/\ (pc # "menu" /\ pc' = "menu") =>
             /\ pc = "unlock"
             /\ \E e \in MasterPasswords :
                   /\ verify_master_password(e, verifierFile)
                   /\ master_password' = e
                   /\ master_key' = get_master_key(e, verifierFile)
       /\ (pc' # "menu") => (master_key' = NoneKey /\ passwords' = <<>>)
       /\ (pc' = "menu") => master_key' # NoneKey
       /\ attempts' <= max_attempts
       /\ (pc = "unlock" /\ last'.op = "unlock" /\ ~last'.ok) =>
             /\ attempts' = attempts + 1
             /\ storeFile' = storeFile
             /\ IF attempts' = max_attempts
                THEN pc' = "off" /\ exit_code' = "1"
                ELSE pc' = "unlock" /\ exit_code' = "none"
       /\ (exit_code' = "1" /\ exit_code # "1") => attempts' = max_attempts]_vars

\* the program has exited with status 1 after three failed attempts over a vault
\* that an earlier run filled
C21_Witness ==
    /\ pc = "off"
    /\ exit_code = "1"
    /\ attempts = max_attempts
    /\ storeFile.kind = "data"
    /\ last.op = "unlock"

\* this step is a get, a get_all_passwords, a search_passwords, or a
\* delete_password for a pair the vault does not hold
ReadOnlyOrNoOp ==
    \/ pc = "menu" /\ last'.op \in {"get", "get_all", "search"}
    \/ \E a \in Accounts : Deleted(a) /\ ~Stored(a, passwords, master_key)

\* C22: get, get_all_passwords and search_passwords, and delete_password for a
\* pair that is not stored (which returns False), change neither the records in
\* memory, nor the master key, nor the store file, nor the verifier file.
C22_ReadOnlyFrame ==
    [][ReadOnlyOrNoOp =>
          /\ passwords' = passwords
          /\ master_key' = master_key
          /\ storeFile' = storeFile
          /\ verifierFile' = verifierFile
          /\ (last'.op = "delete" => ~last'.ok)]_vars

\* the (service, username, date) of every record in memory
Metadata(d) == {<<d[i].service, d[i].username, d[i].date>> : i \in 1..Len(d)}

\* C23: change_master_password changes only the key material: every record has
\* the same service, username and creation date after the rotation as before it,
\* and the set of (service, username) keys is the same.
C23_RotationKeepsMetadata ==
    [][\A n \in MasterPasswords :
         Rotated(n) => Metadata(passwords') = Metadata(passwords)]_vars

====
